---- MODULE Spec2Model ----
(***************************************************************************)
(* Model of the news-image bot (src/Main.py): the history store on disk,   *)
(* the pipeline of main() with its collaborator calls, and the pure        *)
(* helpers clean_old_entries and fetch_daily_news.                         *)
(*                                                                         *)
(* Time is counted in ticks, TicksPerDay to a day.  The tick within a day  *)
(* stands for the sub-second field of a datetime, which isoformat() leaves *)
(* out when it is zero, so timestamps are strings of two lengths and are   *)
(* compared as strings, as the code compares them.                         *)
(***************************************************************************)
EXTENDS Integers, Sequences, FiniteSets, TLC

VARIABLES
    store,          \* content of HISTORY_FILE: [kind, map]
    now,            \* the wall clock, in ticks (datetime.now())
    runs,           \* invocations of main() started so far
    pc,             \* stage of main() the run is at (or ended at)
    outcome,        \* "running", "done", "aborted" (early return), "caught"
    history,        \* main's local `history`: [kind, map]
    news,           \* (news_title, news_url, news_description)
    image_prompt,   \* main's local image_prompt
    image_url,      \* main's local image_url
    tweet_text,     \* main's local tweet_text
    media_id,       \* post_tweet's local media_id
    calls,          \* collaborator calls made in this run, in order
    posts,          \* posts that exist on the platform
    storeAtStart,   \* the store when this run started
    fetchCase,      \* what the news provider answered in this run
    failed,         \* the stage that returned no result in this run
    published,      \* whether publish obtained a post identifier
    committed,      \* whether mark + save ran in this run
    saveResult,     \* how the save of this run went
    commitClock,    \* clock reading taken by mark_article_posted
    pruneClock,     \* clock reading taken by clean_old_entries in this run
    candidate,      \* the provider's first unposted item in this run
    ioOK,           \* whether every load and save so far succeeded
    attempts,       \* every create_tweet call made: [url, at, run]
    sel_pc, sel_history, sel_resp, sel_ret,          \* fetch_daily_news alone
    prune_pc, prune_in, prune_arg, prune_ret,       \* clean_old_entries alone
    prune_ret2, prune_now1, prune_now2,
    img_trace       \* generate_ai_image alone: one record per call made

mainVars == <<store, now, runs, pc, outcome, history, news,
              image_prompt, image_url, tweet_text, media_id, calls, posts,
              storeAtStart, fetchCase, failed, published, committed,
              saveResult, commitClock, pruneClock, candidate, ioOK,
              attempts>>
selVars == <<sel_pc, sel_history, sel_resp, sel_ret>>
pruneVars == <<prune_pc, prune_in, prune_arg, prune_ret, prune_ret2, prune_now1, prune_now2>>
imgVars == <<img_trace>>
vars == <<mainVars, selVars, pruneVars, imgVars>>

(***************************************************************************)
(* Bounds and program constants                                            *)
(***************************************************************************)
TicksPerDay == 2
MaxInstant == 2
MaxRuns == 2
MaxArticles == 1
MaxSelArticles == 2
MaxImageCalls == 2
HISTORY_RETENTION_DAYS == 7

RetTicks == HISTORY_RETENTION_DAYS * TicksPerDay
\* the clock starts ten days after the origin, so that a ten-day-old entry exists
StartClock == 10 * TicksPerDay
\* the clock readings the model samples: a start, one tick later, a whole
\* retention window later, one tick after that, ...
Instant(i) == StartClock + ((i \div 2) * RetTicks) + (i % 2)
ClockInstants == {Instant(i) : i \in 0..MaxInstant}

Ids == {"a", "b"}
None == "<None>"
Falsy(x) == x \in {None, ""}

(***************************************************************************)
(* Timestamps: datetime.isoformat() and Python's string comparison         *)
(***************************************************************************)
Digit(n) == 48 + n

\* fixed-width date part; the fraction is left out when it is zero
isoformat(t) ==
    LET d == t \div TicksPerDay
        f == t % TicksPerDay
    IN  <<Digit(d \div 10), Digit(d % 10)>>
            \o (IF f = 0 THEN <<>> ELSE <<46, Digit(f)>>)

\* a > b on Python strings: lexicographic, a proper prefix is smaller
StrGT(a, b) ==
    \E i \in 1..Len(a) :
        /\ \A j \in 1..(i - 1) : j <= Len(b) /\ a[j] = b[j]
        /\ IF i > Len(b) THEN TRUE ELSE a[i] > b[i]

EmptyDict == [u \in {} |-> None]

\* dicts from identifiers to timestamps written at the given clock readings
DictsOver(times) ==
    UNION { [S -> {isoformat(t) : t \in times}] : S \in SUBSET Ids }

(***************************************************************************)
(* History Store: load / save / prune / contains / mark                    *)
(***************************************************************************)
Dict(m) == [kind |-> "dict", map |-> m]

\* what HISTORY_FILE can hold: nothing, bytes that are not JSON, JSON that is
\* not an object (a list, null, a number), or a JSON object of timestamps
StoreAbsent == [kind |-> "absent", map |-> EmptyDict]
StoreUnparseable == [kind |-> "unparseable", map |-> EmptyDict]
StoreNonMap == [kind |-> "nonmap", map |-> EmptyDict]

\* load_posted_articles: {} when the file is absent or open/json.load raises,
\* else whatever json.load returned
load_posted_articles(st, readable) ==
    IF st.kind = "absent" THEN Dict(EmptyDict)
    ELSE IF (~readable) \/ st.kind = "unparseable" THEN Dict(EmptyDict)
    ELSE [kind |-> st.kind, map |-> st.map]

\* save_posted_articles: open(..., 'w') truncates the file before json.dump
\* writes; every exception is logged and swallowed
SaveOutcomes == {"ok", "open_fails", "write_fails"}

\* a variant without the try/except: the IO error leaves the function
save_posted_articles_unguarded(st, h, how) ==
    CASE how = "ok" -> [store |-> Dict(h), raised |-> FALSE]
      [] how = "open_fails" -> [store |-> st, raised |-> TRUE]
      [] how = "write_fails" -> [store |-> StoreUnparseable, raised |-> TRUE]

\* [store, raised]: the file afterwards, and whether an exception leaves
save_posted_articles(st, h, how) ==
    CASE how = "ok" -> [store |-> Dict(h), raised |-> FALSE]
      [] how = "open_fails" -> [store |-> st, raised |-> FALSE]
      [] how = "write_fails" -> [store |-> StoreUnparseable, raised |-> FALSE]

\* a variant that keeps an entry whose timestamp equals the cutoff
clean_old_entries_inclusive(h, clock) ==
    LET cutoff == isoformat(clock - RetTicks)
        keep == {url \in DOMAIN h : StrGT(h[url], cutoff) \/ h[url] = cutoff}
    IN  [url \in keep |-> h[url]]

\* a variant that stops after deleting the first expired entry it meets
clean_old_entries_first_only(h, clock) ==
    LET cutoff == isoformat(clock - RetTicks)
        old == {url \in DOMAIN h : ~StrGT(h[url], cutoff)}
    IN  IF old = {} THEN h
        ELSE LET gone == CHOOSE url \in old : TRUE
             IN  [url \in (DOMAIN h) \ {gone} |-> h[url]]

\* clean_old_entries: a new dict of the entries whose timestamp string is
\* greater than the cutoff string
clean_old_entries(h, clock) ==
    LET cutoff == isoformat(clock - RetTicks)
        keep == {url \in DOMAIN h : StrGT(h[url], cutoff)}
    IN  [url \in keep |-> h[url]]

\* a variant that looks the url up among the timestamps, not the keys
is_article_posted_in_values(url, h) == url \in {h[u] : u \in DOMAIN h}

is_article_posted(url, h) == url \in DOMAIN h

\* a variant that stamps the date alone (no time of day)
mark_article_posted_date_only(url, h, clock) ==
    [u \in (DOMAIN h) \cup {url} |->
        IF u = url THEN isoformat(clock - (clock % TicksPerDay)) ELSE h[u]]

mark_article_posted(url, h, clock) ==
    [u \in (DOMAIN h) \cup {url} |-> IF u = url THEN isoformat(clock) ELSE h[u]]

(***************************************************************************)
(* Article Selector                                                        *)
(***************************************************************************)
\* an item of the provider's list; a missing key reads as None
Items == [url : {None, ""} \cup Ids, title : {None, "T"}, description : {None, "D"}]

ArticleLists(max) == UNION { [1..n -> Items] : n \in 0..max }

\* requests.get raises, raise_for_status raises, the body is JSON without
\* .get (not an object), or the body is an object with the articles
Responses(max) ==
    {[status |-> s, articles |-> <<>>] : s \in {"neterr", "httperr", "malformed"}}
        \cup {[status |-> "ok", articles |-> as] : as \in ArticleLists(max)}

NoCandidate == [raised |-> FALSE, title |-> None, url |-> None, description |-> None]
Raised == [raised |-> TRUE, title |-> None, url |-> None, description |-> None]

RECURSIVE FirstUnposted_no_fallback(_, _, _)
\* a variant that returns the description as it is, without the title fallback
FirstUnposted_no_fallback(articles, i, h) ==
    IF i > Len(articles) THEN NoCandidate
    ELSE LET article == articles[i]
         IN  IF Falsy(article.url) THEN FirstUnposted_no_fallback(articles, i + 1, h)
             ELSE IF ~is_article_posted(article.url, h)
                  THEN [raised |-> FALSE,
                        title |-> article.title,
                        url |-> article.url,
                        description |-> article.description]
                  ELSE FirstUnposted_no_fallback(articles, i + 1, h)

RECURSIVE FirstUnposted(_, _, _)
\* the for loop of fetch_daily_news, from index i
FirstUnposted(articles, i, h) ==
    IF i > Len(articles) THEN NoCandidate
    ELSE LET article == articles[i]
         IN  IF Falsy(article.url) THEN FirstUnposted(articles, i + 1, h)
             ELSE IF ~is_article_posted(article.url, h)
                  THEN [raised |-> FALSE,
                        title |-> article.title,
                        url |-> article.url,
                        description |-> IF Falsy(article.description)
                                        THEN article.title
                                        ELSE article.description]
                  ELSE FirstUnposted(articles, i + 1, h)

\* a variant without the except clause
fetch_daily_news_uncaught(resp, h) ==
    CASE resp.status \in {"neterr", "httperr", "malformed"} -> Raised
      [] OTHER -> IF resp.articles = <<>> THEN NoCandidate
                  ELSE FirstUnposted(resp.articles, 1, h)

\* fetch_daily_news: only requests' RequestException is caught
fetch_daily_news(resp, h) ==
    CASE resp.status \in {"neterr", "httperr"} -> NoCandidate
      [] resp.status = "malformed" -> Raised
      [] OTHER -> IF resp.articles = <<>> THEN NoCandidate
                  ELSE FirstUnposted(resp.articles, 1, h)

(***************************************************************************)
(* Content Generator, Media Generator, Publisher                           *)
(***************************************************************************)
Err == "<error>"
\* a collaborator raises, or answers with nothing, an empty text, or a text
Replies(text) == {Err, None, "", text}

generate_dalle_prompt(reply) == IF reply = Err THEN None ELSE reply

generate_tweet_text(reply) == IF reply = Err THEN None ELSE reply

\* the request client.images.generate is given: the prompt and n=1
ImageRequest(prompt) == [prompt |-> prompt, n |-> 1]

\* a variant without the check of the prompt
generate_ai_image_unchecked(prompt, reply) ==
    [called |-> TRUE, requests |-> <<ImageRequest(prompt)>>,
     result |-> IF reply = Err THEN None ELSE reply]

\* [called, requests, result]: an empty prompt is rejected before any call
generate_ai_image(prompt, reply) ==
    IF Falsy(prompt) THEN [called |-> FALSE, requests |-> <<>>, result |-> None]
    ELSE [called |-> TRUE, requests |-> <<ImageRequest(prompt)>>,
          result |-> IF reply = Err THEN None ELSE reply]

Call(name, ok) == [name |-> name, ok |-> ok]

\* a variant that fetches the image a second time when the first fetch fails
upload_image_to_twitter_retry(fetchOK, reply) ==
    IF ~fetchOK
    THEN [calls |-> <<Call("image_fetch", FALSE), Call("image_fetch", FALSE)>>,
          result |-> None]
    ELSE [calls |-> <<Call("image_fetch", TRUE), Call("media_upload", ~Falsy(reply) /\ reply # Err)>>,
          result |-> IF reply = Err THEN None ELSE reply]

\* a variant without raise_for_status: the body of a failed fetch is uploaded
upload_image_to_twitter_no_raise(fetchOK, reply) ==
    [calls |-> <<Call("image_fetch", fetchOK), Call("media_upload", ~Falsy(reply) /\ reply # Err)>>,
     result |-> IF reply = Err THEN None ELSE reply]

\* upload_image_to_twitter: [calls, result]; fetch, then upload, any
\* exception gives None
upload_image_to_twitter(fetchOK, reply) ==
    IF ~fetchOK
    THEN [calls |-> <<Call("image_fetch", FALSE)>>, result |-> None]
    ELSE [calls |-> <<Call("image_fetch", TRUE), Call("media_upload", ~Falsy(reply) /\ reply # Err)>>,
          result |-> IF reply = Err THEN None ELSE reply]

\* a variant without the check of media_id
AfterUpload_unchecked(media) == "PUBLISH_CREATE"

\* post_tweet after the upload: return when there is no media id
AfterUpload(media) == IF Falsy(media) THEN "COMMIT_HISTORY" ELSE "PUBLISH_CREATE"

\* create_tweet raises (no post), or the post is made and the response
\* holds its id, or the post is made and reading the id raises
CreateReplies == {"rejected", "posted", "posted_noid"}

(***************************************************************************)
(* Pipeline Orchestrator: main()                                           *)
(***************************************************************************)
\* a variant without the try/except around the body of main()
OnException_unhandled == "crashed"

\* main's except Exception clause: the exception is logged and main returns
OnException == "caught"

NoNews == [title |-> None, url |-> None, description |-> None]

\* the stamps an initial store holds: written exactly a retention window
\* before the first clock reading (expired), and one tick later (in the window)
InitStamps == {StartClock - RetTicks, (StartClock - RetTicks) + 1}

InitStores ==
    {StoreAbsent, StoreUnparseable, StoreNonMap}
        \cup {Dict(m) : m \in DictsOver(InitStamps)}

NoItem == [url |-> None, title |-> None, description |-> None]

\* the first item of the answer with a url that is not in the history
FirstCandidate(resp, h) ==
    LET as == resp.articles
        cand == {i \in 1..Len(as) : ~Falsy(as[i].url) /\ as[i].url \notin DOMAIN h}
    IN  IF resp.status # "ok" \/ cand = {} THEN NoItem
        ELSE as[CHOOSE i \in cand : \A j \in cand : i <= j]

\* whether the load read and parsed the file (an absent file loads as {})
LoadSucceeds(st, readable) ==
    st.kind = "absent" \/ (readable /\ st.kind # "unparseable")

\* what the provider's answer amounts to, given the history
ResponseCase(resp, h) ==
    CASE resp.status # "ok" -> resp.status
      [] resp.articles = <<>> -> "empty"
      [] \A i \in 1..Len(resp.articles) :
            Falsy(resp.articles[i].url) \/ resp.articles[i].url \in DOMAIN h
           -> "nocandidate"
      [] OTHER -> "candidate"

SelIdle ==
    /\ sel_pc = "off"
    /\ sel_history = EmptyDict
    /\ sel_resp = [status |-> "ok", articles |-> <<>>]
    /\ sel_ret = NoCandidate

PruneIdle ==
    /\ prune_pc = "off"
    /\ prune_in = EmptyDict
    /\ prune_arg = EmptyDict
    /\ prune_ret = EmptyDict
    /\ prune_ret2 = EmptyDict
    /\ prune_now1 = 0
    /\ prune_now2 = 0

RunLocalsInit ==
    /\ pc = "LOAD_HISTORY"
    /\ outcome = "running"
    /\ history = Dict(EmptyDict)
    /\ news = NoNews
    /\ image_prompt = None
    /\ image_url = None
    /\ tweet_text = None
    /\ media_id = None
    /\ calls = <<>>
    /\ fetchCase = "none"
    /\ failed = "none"
    /\ published = FALSE
    /\ committed = FALSE
    /\ saveResult = "none"
    /\ commitClock = 0
    /\ pruneClock = 0
    /\ candidate = NoItem

MainInit ==
    /\ store \in InitStores
    /\ storeAtStart = store
    /\ now = StartClock
    /\ runs = 1
    /\ posts = {}
    /\ attempts = {}
    /\ ioOK = TRUE
    /\ RunLocalsInit

ImgIdle == img_trace = <<>>

Init == MainInit /\ SelIdle /\ PruneIdle /\ ImgIdle

\* the scheduler invokes main() again after the previous run has ended
StartRun ==
    /\ outcome # "running"
    /\ runs < MaxRuns
    /\ runs' = runs + 1
    /\ storeAtStart' = store
    /\ pc' = "LOAD_HISTORY"
    /\ outcome' = "running"
    /\ history' = Dict(EmptyDict)
    /\ news' = NoNews
    /\ image_prompt' = None
    /\ image_url' = None
    /\ tweet_text' = None
    /\ media_id' = None
    /\ calls' = <<>>
    /\ fetchCase' = "none"
    /\ failed' = "none"
    /\ published' = FALSE
    /\ committed' = FALSE
    /\ saveResult' = "none"
    /\ commitClock' = 0
    /\ pruneClock' = 0
    /\ candidate' = NoItem
    /\ UNCHANGED <<store, now, posts, selVars, pruneVars, imgVars,
                   ioOK, attempts>>

\* time passes: before a run, or during it (seen before the commit)
Tick ==
    /\ outcome = "running"
    /\ pc \in {"LOAD_HISTORY", "COMMIT_HISTORY"}
    /\ \E t \in ClockInstants : t > now /\ now' = t
    /\ UNCHANGED <<store, runs, pc, outcome, history, news, image_prompt,
                   image_url, tweet_text, media_id, calls, posts, storeAtStart,
                   fetchCase, failed, published, committed, saveResult,
                   commitClock, selVars, pruneVars, imgVars,
                   pruneClock, candidate, ioOK, attempts>>

LoadHistory ==
    /\ outcome = "running" /\ pc = "LOAD_HISTORY"
    /\ \E readable \in BOOLEAN :
        /\ history' = load_posted_articles(store, readable)
        /\ ioOK' = (ioOK /\ LoadSucceeds(store, readable))
    /\ pc' = "PRUNE"
    /\ UNCHANGED <<store, now, runs, outcome, news, image_prompt,
                   image_url, tweet_text, media_id, calls, posts, storeAtStart,
                   fetchCase, failed, published, committed, saveResult,
                   commitClock, selVars, pruneVars, imgVars,
                   pruneClock, candidate, attempts>>

\* history.items() / timestamp > cutoff raise on anything but a dict of
\* strings; the exception reaches main's except clause
Prune ==
    /\ outcome = "running" /\ pc = "PRUNE"
    /\ IF history.kind = "dict"
       THEN /\ history' = Dict(clean_old_entries(history.map, now))
            /\ pruneClock' = now
            /\ pc' = "SELECT"
            /\ outcome' = outcome
       ELSE /\ outcome' = OnException
            /\ UNCHANGED <<history, pc, pruneClock>>
    /\ UNCHANGED <<store, now, runs, news, image_prompt,
                   image_url, tweet_text, media_id, calls, posts, storeAtStart,
                   fetchCase, failed, published, committed, saveResult,
                   commitClock, selVars, pruneVars, imgVars,
                   candidate, ioOK, attempts>>

Select ==
    /\ outcome = "running" /\ pc = "SELECT"
    /\ \E resp \in Responses(MaxArticles) :
        LET r == fetch_daily_news(resp, history.map)
        IN  /\ calls' = Append(calls, Call("news_fetch", resp.status = "ok"))
            /\ fetchCase' = ResponseCase(resp, history.map)
            /\ candidate' = FirstCandidate(resp, history.map)
            /\ IF r.raised
               THEN /\ outcome' = OnException
                    /\ UNCHANGED <<news, pc, failed>>
               ELSE /\ news' = [title |-> r.title, url |-> r.url,
                                description |-> r.description]
                    /\ IF Falsy(r.url) \/ Falsy(r.description)
                       THEN /\ outcome' = "aborted"
                            /\ failed' = "SELECT"
                            /\ pc' = pc
                       ELSE /\ pc' = "GEN_DIRECTIVE"
                            /\ UNCHANGED <<outcome, failed>>
    /\ UNCHANGED <<store, now, runs, history, image_prompt,
                   image_url, tweet_text, media_id, posts, storeAtStart,
                   published, committed, saveResult,
                   commitClock, selVars, pruneVars, imgVars,
                   pruneClock, ioOK, attempts>>

GenDirective ==
    /\ outcome = "running" /\ pc = "GEN_DIRECTIVE"
    /\ \E reply \in Replies("prompt") :
        LET r == generate_dalle_prompt(reply)
        IN  /\ calls' = Append(calls, Call("chat_directive", reply # Err))
            /\ image_prompt' = r
            /\ IF Falsy(r)
               THEN /\ outcome' = "aborted"
                    /\ failed' = "GEN_DIRECTIVE"
                    /\ pc' = pc
               ELSE /\ pc' = "RENDER_IMAGE"
                    /\ UNCHANGED <<outcome, failed>>
    /\ UNCHANGED <<store, now, runs, history, news,
                   image_url, tweet_text, media_id, posts, storeAtStart,
                   fetchCase, published, committed, saveResult,
                   commitClock, selVars, pruneVars, imgVars,
                   pruneClock, candidate, ioOK, attempts>>

RenderImage ==
    /\ outcome = "running" /\ pc = "RENDER_IMAGE"
    /\ \E reply \in Replies("img") :
        LET r == generate_ai_image(image_prompt, reply)
        IN  /\ calls' = IF r.called
                        THEN Append(calls, Call("image_generate", reply # Err))
                        ELSE calls
            /\ image_url' = r.result
            /\ IF Falsy(r.result)
               THEN /\ outcome' = "aborted"
                    /\ failed' = "RENDER_IMAGE"
                    /\ pc' = pc
               ELSE /\ pc' = "GEN_CAPTION"
                    /\ UNCHANGED <<outcome, failed>>
    /\ UNCHANGED <<store, now, runs, history, news, image_prompt,
                   tweet_text, media_id, posts, storeAtStart,
                   fetchCase, published, committed, saveResult,
                   commitClock, selVars, pruneVars, imgVars,
                   pruneClock, candidate, ioOK, attempts>>

GenCaption ==
    /\ outcome = "running" /\ pc = "GEN_CAPTION"
    /\ \E reply \in Replies("tweet") :
        LET r == generate_tweet_text(reply)
        IN  /\ calls' = Append(calls, Call("chat_caption", reply # Err))
            /\ tweet_text' = r
            /\ IF Falsy(r)
               THEN /\ outcome' = "aborted"
                    /\ failed' = "GEN_CAPTION"
                    /\ pc' = pc
               ELSE /\ pc' = "PUBLISH"
                    /\ UNCHANGED <<outcome, failed>>
    /\ UNCHANGED <<store, now, runs, history, news, image_prompt,
                   image_url, media_id, posts, storeAtStart,
                   fetchCase, published, committed, saveResult,
                   commitClock, selVars, pruneVars, imgVars,
                   pruneClock, candidate, ioOK, attempts>>

\* post_tweet up to its first return: the image fetch and the media upload.
\* main() does not look at what post_tweet did: it goes on to the commit
PublishUpload ==
    /\ outcome = "running" /\ pc = "PUBLISH"
    /\ \E fetchOK \in BOOLEAN, reply \in Replies("mid") :
        LET r == upload_image_to_twitter(fetchOK, reply)
        IN  /\ calls' = calls \o r.calls
            /\ media_id' = r.result
            /\ pc' = AfterUpload(r.result)
            /\ failed' = IF Falsy(r.result) THEN "PUBLISH" ELSE failed
    /\ UNCHANGED <<store, now, runs, outcome, history, news, image_prompt,
                   image_url, tweet_text, posts, storeAtStart,
                   fetchCase, published, committed, saveResult,
                   commitClock, selVars, pruneVars, imgVars,
                   pruneClock, candidate, ioOK, attempts>>

\* post_tweet's create_tweet; every exception is caught inside post_tweet
PublishCreate ==
    /\ outcome = "running" /\ pc = "PUBLISH_CREATE"
    /\ \E reply \in CreateReplies :
        /\ calls' = Append(calls, Call("create_tweet", reply # "rejected"))
        /\ posts' = IF reply = "rejected" THEN posts
                    ELSE posts \cup {[url |-> news.url, at |-> now, run |-> runs]}
        /\ published' = (reply = "posted")
        /\ attempts' = attempts \cup {[url |-> news.url, at |-> now, run |-> runs]}
        /\ failed' = IF reply = "posted" THEN failed ELSE "PUBLISH"
    /\ pc' = "COMMIT_HISTORY"
    /\ UNCHANGED <<store, now, runs, outcome, history, news, image_prompt,
                   image_url, tweet_text, media_id, storeAtStart,
                   fetchCase, committed, saveResult,
                   commitClock, selVars, pruneVars, imgVars,
                   pruneClock, candidate, ioOK>>

\* mark_article_posted, then save_posted_articles, then the end of main()
CommitHistory ==
    /\ outcome = "running" /\ pc = "COMMIT_HISTORY"
    /\ LET h == mark_article_posted(news.url, history.map, now)
       IN  /\ history' = Dict(h)
           /\ \E how \in SaveOutcomes :
                LET r == save_posted_articles(store, h, how)
                IN  /\ store' = r.store
                    /\ saveResult' = how
                    /\ ioOK' = (ioOK /\ how = "ok")
                    /\ pc' = IF r.raised THEN pc ELSE "DONE"
                    /\ outcome' = IF r.raised THEN OnException ELSE "done"
    /\ commitClock' = now
    /\ committed' = TRUE
    /\ UNCHANGED <<now, runs, news, image_prompt,
                   image_url, tweet_text, media_id, calls, posts, storeAtStart,
                   fetchCase, failed, published, selVars, pruneVars, imgVars,
                   pruneClock, candidate, attempts>>

Next ==
    \/ StartRun
    \/ Tick
    \/ LoadHistory
    \/ Prune
    \/ Select
    \/ GenDirective
    \/ RenderImage
    \/ GenCaption
    \/ PublishUpload
    \/ PublishCreate
    \/ CommitHistory

Spec == Init /\ [][Next]_vars

(***************************************************************************)
(* fetch_daily_news on its own: any history, any answer of the provider    *)
(***************************************************************************)
MainIdle ==
    /\ store = StoreAbsent
    /\ storeAtStart = StoreAbsent
    /\ runs = 0
    /\ posts = {}
    /\ attempts = {}
    /\ ioOK = TRUE
    /\ pc = "LOAD_HISTORY"
    /\ outcome = "off"
    /\ history = Dict(EmptyDict)
    /\ news = NoNews
    /\ image_prompt = None
    /\ image_url = None
    /\ tweet_text = None
    /\ media_id = None
    /\ calls = <<>>
    /\ fetchCase = "none"
    /\ failed = "none"
    /\ published = FALSE
    /\ committed = FALSE
    /\ saveResult = "none"
    /\ commitClock = 0
    /\ pruneClock = 0
    /\ candidate = NoItem

SelInit ==
    /\ MainIdle /\ now = StartClock
    /\ PruneIdle /\ ImgIdle
    /\ sel_pc = "call"
    /\ sel_history \in DictsOver({StartClock})
    /\ sel_resp \in Responses(MaxSelArticles)
    /\ sel_ret = NoCandidate

SelCall ==
    /\ sel_pc = "call"
    /\ sel_ret' = fetch_daily_news(sel_resp, sel_history)
    /\ sel_pc' = "returned"
    /\ UNCHANGED <<sel_history, sel_resp, mainVars, pruneVars, imgVars>>

SelNext == SelCall

SpecSelect == SelInit /\ [][SelNext]_vars

(***************************************************************************)
(* clean_old_entries on its own: any mapping, called twice                 *)
(***************************************************************************)
\* the call as its caller sees it: the argument afterwards and the result
\* (the comprehension builds a new dict and assigns nothing to the argument)
clean_old_entries_call(h, clock) ==
    [arg |-> h, ret |-> clean_old_entries(h, clock)]

PruneStamps == 0..Instant(MaxInstant)

PruneInit ==
    /\ MainIdle /\ now \in ClockInstants
    /\ SelIdle /\ ImgIdle
    /\ prune_pc = "call1"
    /\ prune_in \in DictsOver(PruneStamps)
    /\ prune_arg = prune_in
    /\ prune_ret = EmptyDict
    /\ prune_ret2 = EmptyDict
    /\ prune_now1 = 0
    /\ prune_now2 = 0

PruneCall1 ==
    /\ prune_pc = "call1"
    /\ LET r == clean_old_entries_call(prune_arg, now)
       IN  /\ prune_arg' = r.arg
           /\ prune_ret' = r.ret
    /\ prune_now1' = now
    /\ prune_pc' = "call2"
    /\ UNCHANGED <<prune_in, prune_ret2, prune_now2, mainVars, selVars, imgVars>>

PruneTick ==
    /\ prune_pc = "call2"
    /\ \E t \in ClockInstants : t > now /\ now' = t
    /\ UNCHANGED <<store, runs, pc, outcome, history, news, image_prompt,
                   image_url, tweet_text, media_id, calls, posts, storeAtStart,
                   fetchCase, failed, published, committed, saveResult,
                   commitClock, selVars, pruneVars, imgVars,
                   pruneClock, candidate, ioOK, attempts>>

PruneCall2 ==
    /\ prune_pc = "call2"
    /\ prune_ret2' = clean_old_entries_call(prune_ret, now).ret
    /\ prune_now2' = now
    /\ prune_pc' = "done"
    /\ UNCHANGED <<prune_in, prune_arg, prune_ret, prune_now1, mainVars, selVars, imgVars>>

PruneNext == PruneCall1 \/ PruneTick \/ PruneCall2

SpecPrune == PruneInit /\ [][PruneNext]_vars

(***************************************************************************)
(* generate_ai_image on its own: called with any prompt, a few times over  *)
(***************************************************************************)
ImagePrompts == {None, "", "prompt", "other"}

ImgInit ==
    /\ MainIdle /\ now = StartClock
    /\ SelIdle /\ PruneIdle
    /\ img_trace = <<>>

\* one call: the prompt given, the requests it sent, what it returned
ImgCall ==
    /\ Len(img_trace) < MaxImageCalls
    /\ \E prompt \in ImagePrompts, reply \in Replies("img") :
        LET r == generate_ai_image(prompt, reply)
        IN  img_trace' = Append(img_trace,
                [prompt |-> prompt, reply |-> reply,
                 requests |-> r.requests, result |-> r.result])
    /\ UNCHANGED <<mainVars, selVars, pruneVars>>

ImgNext == ImgCall

SpecImage == ImgInit /\ [][ImgNext]_vars

(***************************************************************************)
(* Properties                                                              *)
(***************************************************************************)
Ended == outcome \in {"done", "aborted", "caught"}

CallNames == [i \in 1..Len(calls) |-> calls[i].name]

Made(name) == \E i \in 1..Len(calls) : calls[i].name = name

\* the clock reading a timestamp string was written at
TimeOf(s) == CHOOSE t \in PruneStamps : isoformat(t) = s

\* C1: a run executes COMMIT_HISTORY (mark + save) if and only if its
\* publish obtained a post identifier.  main() ignores what post_tweet did,
\* so this is violated by a run whose image fetch or upload failed.
C1_CommitIffPublished == Ended => (committed <=> published)

\* C2: when GEN_DIRECTIVE, RENDER_IMAGE, GEN_CAPTION or PUBLISH returns no
\* result, the store after the run equals the store before it.  Violated
\* for PUBLISH: the commit runs although publish failed.
C2_NoMutationOnFailure ==
    (Ended /\ failed \in {"GEN_DIRECTIVE", "RENDER_IMAGE", "GEN_CAPTION", "PUBLISH"})
        => store = storeAtStart

\* C3: fetch_daily_news returns the first item, in the order returned, whose
\* url is non-empty and not a key of the history; items without a url are
\* skipped; the url returned is never a key of the history.
C3_FirstUnpostedReturned ==
    (sel_pc = "returned" /\ sel_resp.status = "ok") =>
        LET as == sel_resp.articles
            cand == {i \in 1..Len(as) :
                        ~Falsy(as[i].url) /\ as[i].url \notin DOMAIN sel_history}
        IN  /\ ~sel_ret.raised
            /\ sel_ret.url \notin DOMAIN sel_history
            /\ IF cand = {} THEN sel_ret = NoCandidate
               ELSE LET k == CHOOSE i \in cand : \A j \in cand : i <= j
                    IN  /\ sel_ret.url = as[k].url
                        /\ sel_ret.title = as[k].title

\* a posted item and an item without url come before the one returned
C3_Witness ==
    /\ sel_pc = "returned"
    /\ Len(sel_resp.articles) = 2
    /\ sel_resp.articles[1].url \in DOMAIN sel_history
    /\ sel_ret.url = sel_resp.articles[2].url
    /\ sel_ret.url \in Ids

\* C4: when the news call fails, the list is empty, or every item is in the
\* history or has no url, fetch_daily_news returns (None, None, None) without
\* raising, and the run ends at SELECT with the store unchanged.
C4_NoCandidateEndsAtSelect ==
    fetchCase \in {"neterr", "httperr", "empty", "nocandidate"} =>
        /\ news = NoNews
        /\ outcome = "aborted" /\ pc = "SELECT" /\ failed = "SELECT"
        /\ CallNames = <<"news_fetch">>
        /\ ~committed
        /\ store = storeAtStart

\* every item of a non-empty list is in a non-empty history
C4_Witness ==
    /\ fetchCase = "nocandidate"
    /\ history.map # EmptyDict
    /\ outcome = "aborted"

\* C5 as stated: after a full success trace the store holds the selected
\* url with the timestamp of this run.  Violated when the save fails.
C5_SuccessRecorded ==
    (outcome = "done" /\ published) =>
        /\ store.kind = "dict"
        /\ news.url \in DOMAIN store.map
        /\ store.map[news.url] = isoformat(now)

\* C5 amended: after a full success trace whose save succeeded, the store
\* is the run's history: the selected url with the timestamp of this run
\* (replacing any older entry of that url), and the other pruned entries.
C5_SuccessRecordedWhenSaved ==
    (outcome = "done" /\ published /\ saveResult = "ok") =>
        /\ store.kind = "dict"
        /\ news.url \in DOMAIN store.map
        /\ store.map[news.url] = isoformat(now)
        /\ commitClock = now
        /\ store.map = history.map

\* the url was already a key of the store, with an expired timestamp, and
\* the commit was made at a clock reading with a time of day
C5_Witness ==
    /\ outcome = "done" /\ published /\ saveResult = "ok"
    /\ storeAtStart.kind = "dict"
    /\ news.url \in DOMAIN storeAtStart.map
    /\ storeAtStart.map[news.url] # store.map[news.url]
    /\ now % TicksPerDay # 0

\* C6: within publish the calls are image fetch, media upload, post
\* creation, in that order; post creation is attempted only after a
\* successful fetch and an upload that returned a non-empty media id.
C6_PublishOrder ==
    /\ \A i \in 1..Len(calls) :
        calls[i].name = "media_upload" =>
            i > 1 /\ calls[i - 1] = Call("image_fetch", TRUE)
    /\ \A i \in 1..Len(calls) :
        calls[i].name = "create_tweet" =>
            /\ i > 2
            /\ calls[i - 1] = Call("media_upload", TRUE)
            /\ calls[i - 2] = Call("image_fetch", TRUE)
            /\ ~Falsy(media_id)
    /\ \A p \in posts : p.run = runs => Made("create_tweet")

\* a run fetched the image, uploaded it and created a post
C6_Witness ==
    /\ Made("create_tweet")
    /\ posts # {}

\* C7: whatever the store holds at the start of a run (absent, unreadable,
\* unparseable, or not a mapping), the run goes on to PRUNE and SELECT with
\* an empty history.  Violated for a store holding JSON that is not an
\* object: clean_old_entries raises and the run ends at PRUNE.
C7_CorruptStoreIsEmptyHistory ==
    storeAtStart.kind # "dict" =>
        /\ ~(outcome = "caught" /\ pc = "PRUNE")
        /\ (pc = "SELECT" => history = Dict(EmptyDict))

\* C8 as stated: a failed save is not propagated, the run reaches DONE, and
\* the store keeps its pre-run content.  Violated when the write fails
\* after open(..., 'w') has truncated the file.
C8_FailedSaveKeepsStore ==
    (committed /\ saveResult # "ok") =>
        /\ outcome = "done" /\ pc = "DONE"
        /\ store = storeAtStart

\* C8 amended: a failed save is not propagated and the run reaches DONE with
\* the post of this run still there; the store keeps its pre-run content
\* when the file could not be opened, and is left truncated (unparseable)
\* when the write fails after the file was opened.
C8_FailedSaveNotFatal ==
    (committed /\ saveResult # "ok") =>
        /\ outcome = "done" /\ pc = "DONE"
        /\ published => \E p \in posts : p.run = runs /\ p.url = news.url
        /\ saveResult = "open_fails" => store = storeAtStart
        /\ saveResult = "write_fails" => store = StoreUnparseable

\* the save failed after a successful publish, on a store that held entries
C8_Witness ==
    /\ committed /\ published
    /\ saveResult = "write_fails"
    /\ storeAtStart.kind = "dict" /\ storeAtStart.map # EmptyDict
    /\ outcome = "done"

C11_EmptyPromptNoCall ==
    \A i \in 1..Len(img_trace) :
        LET c == img_trace[i]
        IN  IF Falsy(c.prompt)
            THEN c.requests = <<>> /\ c.result = None
            ELSE /\ c.requests = <<[prompt |-> c.prompt, n |-> 1]>>
                 /\ c.result = (IF c.reply = Err THEN None ELSE c.reply)

\* a call with the empty prompt and a call that returned an image location
C11_Witness ==
    /\ \E i \in 1..Len(img_trace) : img_trace[i].prompt = ""
    /\ \E i \in 1..Len(img_trace) :
        img_trace[i].prompt = "prompt" /\ img_trace[i].result = "img"

\* the order of the collaborator calls in main() and post_tweet
CallOrder ==
    <<"news_fetch", "chat_directive", "image_generate", "chat_caption",
      "image_fetch", "media_upload", "create_tweet">>

\* C12: in every run the collaborator calls are made in the order news
\* fetch, directive, image generation, caption, image fetch, media upload,
\* post creation, each at most once, none before all the earlier ones.
C12_CallsInOrder ==
    /\ Len(calls) <= Len(CallOrder)
    /\ \A i \in 1..Len(calls) : calls[i].name = CallOrder[i]

\* a run that made all seven calls
C12_Witness == CallNames = CallOrder /\ outcome = "done"

\* the calls a stage makes, last one included, counted from the first
CallsUpTo(stage) ==
    CASE stage = "SELECT" -> {1}
      [] stage = "GEN_DIRECTIVE" -> {2}
      [] stage = "RENDER_IMAGE" -> {3}
      [] stage = "GEN_CAPTION" -> {4}
      [] stage = "PUBLISH" -> {5, 6, 7}
      [] OTHER -> 0..7

\* C13: once a stage has returned no result, no later collaborator call is
\* made in the run: the call log ends with the failing stage's call, a
\* failed call is the last one, and a run that stopped before post creation
\* has created no post.
C13_ShortCircuit ==
    /\ failed # "none" => Len(calls) \in CallsUpTo(failed)
    /\ \A i \in 1..Len(calls) : ~calls[i].ok => i = Len(calls)
    /\ (failed = "PUBLISH" /\ Len(calls) = 7) => ~published
    /\ ~Made("create_tweet") => \A p \in posts : p.run # runs

\* the image fetch failed, and the run has ended without upload or post
C13_Witness ==
    /\ failed = "PUBLISH"
    /\ calls[Len(calls)] = Call("image_fetch", FALSE)
    /\ Ended

\* C14: no collaborator-facing function lets an exception pass: fetch_daily_news,
\* generate_dalle_prompt, generate_ai_image, generate_tweet_text and post_tweet
\* answer every collaborator failure with a no-result value.  Violated by
\* fetch_daily_news on a response that is not the expected JSON object.
C14_NoRawException ==
    outcome = "caught" =>
        pc \notin {"SELECT", "GEN_DIRECTIVE", "RENDER_IMAGE", "GEN_CAPTION",
                   "PUBLISH", "PUBLISH_CREATE"}

\* C15: an exception raised at any stage is caught by main: the run ends
\* without the exception leaving main, at the stage that raised, and no
\* later stage is executed (no later call, no commit, no post).
C15_ExceptionCaught ==
    /\ outcome \in {"running", "done", "aborted", "caught"}
    /\ outcome = "caught" =>
        /\ pc \in {"PRUNE", "SELECT"}
        /\ pc = "PRUNE" => calls = <<>>
        /\ pc = "SELECT" => CallNames = <<"news_fetch">> /\ news = NoNews
        /\ image_prompt = None /\ image_url = None /\ tweet_text = None
        /\ ~committed /\ store = storeAtStart
        /\ \A p \in posts : p.run # runs

\* fetch_daily_news raised and main caught it
C15_Witness == outcome = "caught" /\ pc = "SELECT" /\ fetchCase = "malformed"

\* C16 (as stated): a run whose news fetch returned an item with a non-empty
\* identifier that is not in the pruned history never aborts at SELECT.
C16_CandidateProceeds ==
    fetchCase = "candidate" => failed # "SELECT"

\* the summary fetch_daily_news derives from an item
SummaryOf(item) ==
    IF Falsy(item.description) THEN item.title ELSE item.description

\* C16 (amended): with a candidate in the answer, the run proceeds to
\* GEN_DIRECTIVE with the first candidate exactly when that item has a
\* description or a title, the title serving as the summary when the
\* description is absent; a candidate with neither aborts the run at SELECT.
\* A run gets past SELECT only with a candidate.
C16_CandidateWithSummaryProceeds ==
    /\ fetchCase = "candidate" =>
          IF Falsy(SummaryOf(candidate))
          THEN outcome = "aborted" /\ failed = "SELECT" /\ pc = "SELECT"
          ELSE /\ failed # "SELECT"
               /\ pc \notin {"LOAD_HISTORY", "PRUNE", "SELECT"}
               /\ news = [title |-> candidate.title, url |-> candidate.url,
                          description |-> SummaryOf(candidate)]
               /\ ~Falsy(candidate.url)
               /\ committed \/ ~is_article_posted(candidate.url, history.map)
    /\ pc \notin {"LOAD_HISTORY", "PRUNE", "SELECT"} => fetchCase = "candidate"

\* a candidate without a description went on to GEN_DIRECTIVE with its title
C16_Witness ==
    /\ fetchCase = "candidate"
    /\ Falsy(candidate.description) /\ candidate.title = "T"
    /\ news.description = "T"
    /\ Made("chat_directive")

\* C17: clean_old_entries keeps an entry whose age equals the retention
\* window (written at now minus 7 days) and removes only the entries
\* strictly older.  Violated: the code keeps timestamp > cutoff, so the
\* entry written exactly at the cutoff is removed.
C17_BoundaryEntryKept ==
    prune_pc # "call1" =>
        LET kept == {u \in DOMAIN prune_in :
                        prune_now1 - TimeOf(prune_in[u]) <= RetTicks}
        IN  prune_ret = [u \in kept |-> prune_in[u]]

\* C18: while every load and save of the History Store has succeeded, no
\* identifier is passed to create_tweet in two different runs less than
\* 7 days apart, and a run selects no identifier whose entry in the store
\* it started from is still within the retention window.
C18_NoRepostWithinWindow ==
    ioOK =>
        /\ \A p, q \in attempts :
              (p.url = q.url /\ p.run < q.run) => q.at - p.at >= RetTicks
        /\ (pc \notin {"LOAD_HISTORY", "PRUNE", "SELECT"}
                /\ storeAtStart.kind = "dict"
                /\ news.url \in DOMAIN storeAtStart.map)
              => pruneClock - TimeOf(storeAtStart.map[news.url]) >= RetTicks

\* a later run, less than 7 days after an earlier run passed an identifier
\* to create_tweet, is offered that identifier again and finds no candidate
C18_Witness ==
    /\ ioOK /\ runs > 1 /\ fetchCase = "nocandidate"
    /\ \E p \in attempts :
        /\ p.run < runs
        /\ now - p.at < RetTicks
        /\ is_article_posted(p.url, history.map)
        /\ calls = <<Call("news_fetch", TRUE)>>

\* C19: the store written by COMMIT_HISTORY is the entries of the pre-run
\* store that are within the retention window, timestamps unchanged, plus
\* the selected identifier; a run that aborts, or that does not reach
\* COMMIT_HISTORY, leaves the store as it was.  Violated by a run whose
\* publish failed (it commits all the same) and by a run whose load failed.
C19_CommitWritesPrunedPlusSelected ==
    /\ (committed /\ saveResult = "ok") =>
          store = Dict(mark_article_posted(news.url,
                          clean_old_entries(storeAtStart.map, pruneClock),
                          commitClock))
    /\ (Ended /\ failed # "none") => store = storeAtStart
    /\ ~committed => store = storeAtStart
====
